---- MODULE Spec2Model ----
(***************************************************************************)
(* A model of the go-onetimesecret client (package onetimesecret) talking  *)
(* to the One-Time Secret service over HTTP.                               *)
(*                                                                         *)
(* Strings the client escapes (keys, secrets, passphrases) are sequences   *)
(* of one-character strings, so that escaping and unescaping are computed. *)
(* Messages, state names and error texts are TLA+ strings.                 *)
(*                                                                         *)
(* The client code is translated from src/client_test.go (the library's   *)
(* source starts at line 148 of that file).  The remote service is not     *)
(* part of the repository: Serve* below model it from the specification    *)
(* (sections 3, 4.1 and 8) and the README.                                 *)
(***************************************************************************)
EXTENDS Integers, Sequences, FiniteSets, TLC

\* ------------------------------------------------------------------ bounds

\* The number of secrets the service stores in one behaviour.
MaxSecrets == 1

\* ------------------------------------------------------------ input values

EmptyStr == <<>>

\* A secret with the characters query escaping treats specially.
SecretA == <<"a", "\n", "+", " ", "%">>

\* The secret the service chooses for a generate request.
SecretG == <<"g", "7">>

\* The secrets a caller passes to Put.
Secrets == {EmptyStr, SecretA}

PassA == <<"p", " ", "+">>

\* The passphrases a caller passes (the empty one: no passphrase).
Passphrases == {EmptyStr, PassA}

\* The secret TTLs, in seconds, and the recipients a caller passes.
TTLs == {60}

Recipients == {EmptyStr}

\* The ends of the range the tests draw their TTLs from (60 + rand.Intn(1000)).
TestTTLs == {60, 1059}

\* const ttlAllowedError = 3
ttlAllowedError == 3

\* fmt.Sprint of a TTL: its decimal digits.
DecimalDigits == <<"0", "1", "2", "3", "4", "5", "6", "7", "8", "9">>

RECURSIVE Sprint(_)
Sprint(n) ==
  IF n < 10 THEN <<DecimalDigits[n + 1]>>
  ELSE Sprint(n \div 10) \o <<DecimalDigits[(n % 10) + 1]>>

Digits == <<"1", "2", "3", "4", "5", "6">>

\* The keys the service issues for its i-th secret.
SecretKeyOf(i) == <<"s", Digits[i]>>

MetadataKeyOf(i) == <<"m", Digits[i]>>

\* A key the service never issues, with characters path escaping changes.
BogusKey == <<"s", "/", "%">>

\* The keys a caller passes to Get: the secret keys the service may have
\* issued, and one it has not.
SecretKeys == {SecretKeyOf(i) : i \in 1..MaxSecrets} \cup {BogusKey}

\* The keys a caller passes to Burn and GetMetadata.
MetadataKeys == {MetadataKeyOf(i) : i \in 1..MaxSecrets} \cup {BogusKey}

\* ------------------------------------------------------- character strings

\* The percent-encoding of the characters the model uses that Go escapes.
PctCode ==
  [c \in {"/", "%", " ", "\n", "+"} |->
     CASE c = "/"  -> <<"%", "2", "F">>
       [] c = "%"  -> <<"%", "2", "5">>
       [] c = " "  -> <<"%", "2", "0">>
       [] c = "\n" -> <<"%", "0", "A">>
       [] c = "+"  -> <<"%", "2", "B">>]

\* url.PathEscape: a path segment; "/", "%", space and newline are escaped,
\* "+" is not.
PathEscapeChar(c) ==
  IF c \in {"/", "%", " ", "\n"} THEN PctCode[c] ELSE <<c>>

\* URL.EscapedPath with no RawPath (what URL.String uses): a whole path; "/"
\* stays, "%", space and newline are escaped.
EscapedPathChar(c) ==
  IF c \in {"%", " ", "\n"} THEN PctCode[c] ELSE <<c>>

\* QueryEscapeChar that leaves "+" as it is.
QueryEscapeCharKeepsPlus(c) ==
  IF c = " " THEN <<"+">>
  ELSE IF c \in DOMAIN PctCode \ {"+"} THEN PctCode[c] ELSE <<c>>

\* url.QueryEscape: space becomes "+", every other reserved byte %XX.
QueryEscapeChar(c) ==
  IF c = " " THEN <<"+">>
  ELSE IF c \in DOMAIN PctCode THEN PctCode[c] ELSE <<c>>

RECURSIVE PathEscapeOf(_)
PathEscapeOf(s) ==
  IF s = <<>> THEN <<>> ELSE PathEscapeChar(Head(s)) \o PathEscapeOf(Tail(s))

RECURSIVE EscapedPathOf(_)
EscapedPathOf(s) ==
  IF s = <<>> THEN <<>> ELSE EscapedPathChar(Head(s)) \o EscapedPathOf(Tail(s))

RECURSIVE QueryEscapeOf(_)
QueryEscapeOf(s) ==
  IF s = <<>> THEN <<>> ELSE QueryEscapeChar(Head(s)) \o QueryEscapeOf(Tail(s))

\* The character a %XX triple stands for (itself when the model has no such
\* character: the triple is then kept as written).
Unpct(t) ==
  IF \E c \in DOMAIN PctCode : PctCode[c] = t
  THEN <<CHOOSE c \in DOMAIN PctCode : PctCode[c] = t>>
  ELSE t

\* The service's decoding of a request path segment: %XX to its character.
RECURSIVE PathUnescapeOf(_)
PathUnescapeOf(s) ==
  IF s = <<>> THEN <<>>
  ELSE IF Head(s) = "%" /\ Len(s) >= 3
       THEN Unpct(SubSeq(s, 1, 3)) \o PathUnescapeOf(SubSeq(s, 4, Len(s)))
       ELSE <<Head(s)>> \o PathUnescapeOf(Tail(s))

\* The service's decoding of a query value: "+" to space, %XX to its character.
RECURSIVE QueryUnescapeOf(_)
QueryUnescapeOf(s) ==
  IF s = <<>> THEN <<>>
  ELSE IF Head(s) = "+" THEN <<" ">> \o QueryUnescapeOf(Tail(s))
  ELSE IF Head(s) = "%" /\ Len(s) >= 3
       THEN Unpct(SubSeq(s, 1, 3)) \o QueryUnescapeOf(SubSeq(s, 4, Len(s)))
       ELSE <<Head(s)>> \o QueryUnescapeOf(Tail(s))


\* The strings the model escapes, and the escaped forms it unescapes.  The
\* operators below are the ones above, tabulated over these.
Escapable ==
  SecretKeys \cup MetadataKeys \cup Secrets \cup Passphrases \cup Recipients
    \cup {SecretG} \cup {Sprint(t) : t \in TTLs \cup TestTTLs \cup {0}}
    \cup {<<"-">>, <<"g", "7", "\n", "g", "7">>}

PathEscapeTable == [s \in Escapable |-> PathEscapeOf(s)]

PathEscape(s) == PathEscapeTable[s]

EscapedPathTable == [s \in {PathEscape(t) : t \in Escapable} |-> EscapedPathOf(s)]

EscapedPath(s) == EscapedPathTable[s]

QueryEscapeTable == [s \in Escapable |-> QueryEscapeOf(s)]

QueryEscape(s) == QueryEscapeTable[s]

PathUnescapeTable ==
  [s \in {EscapedPath(PathEscape(t)) : t \in Escapable} |-> PathUnescapeOf(s)]

PathUnescape(s) == PathUnescapeTable[s]

QueryUnescapeTable == [s \in {QueryEscape(t) : t \in Escapable} |-> QueryUnescapeOf(s)]

QueryUnescape(s) == QueryUnescapeTable[s]

\* ------------------------------------------------------------------ errors

Nil == "nil"

ErrDestroyed == "onetimesecret: burned or retrieved"

ErrInvalid == "onetimesecret: invalid argument"

ErrNotFound == "onetimesecret: unknown secret"

\* The error http.DefaultClient.Do or io.ReadAll returns.
ErrTransport == "transport error"

\* The error json.Unmarshal returns.
ErrJSON == "json: cannot unmarshal"

\* fmt.Errorf("error: %v", message)
GenericError(message) == "error: " \o message

MsgInvalid == "You did not provide anything to share"

MsgUnknown == "Unknown secret"

MsgOther == "Not authorized"

\* ------------------------------------------------------------- wire format

\* keyResponse: the JSON object of a secret's metadata (and value).
\* The TTL fields are 0 where the document has none.
KeyResponse(custid, mk, sk, state, value, pr) ==
  [custid |-> custid, metadata_key |-> mk, secret_key |-> sk, state |-> state,
   value |-> value, passphrase_required |-> pr,
   ttl |-> 0, metadata_ttl |-> 0, secret_ttl |-> 0]

ZeroKeyResponse == KeyResponse(EmptyStr, EmptyStr, EmptyStr, "", EmptyStr, FALSE)

\* Response bodies: a JSON document of one of the shapes the service sends,
\* or bytes that are not JSON.
GarbageBody == [shape |-> "garbage"]

ErrorBody(message) == [shape |-> "error", message |-> message]

KeyBody(kr) == [shape |-> "key", kr |-> kr]

BurnBody(kr) == [shape |-> "burn", state |-> kr]

ListBody(krs) == [shape |-> "list", krs |-> krs]

StatusBody(s) == [shape |-> "status", status |-> s]


\* ------------------------------------------------------ the remote service
\* Modelled from the specification: the service keeps, per secret, its value,
\* its passphrase and its lifecycle state (store -> new, retrieve ->
\* received, burn -> burned), answers "Unknown secret" for an unknown or
\* consumed key and for a wrong passphrase, and rejects an empty secret.
\* A secret stored with TTL t has a metadata TTL of 2t; the TTLs the service
\* reports are what is left of them at the time of its answer (age: the
\* seconds it took to answer).  The expiry of secrets and the recipient are
\* not modelled.

\* The number a decimal string stands for.
RECURSIVE Atoi(_)
Atoi(s) ==
  IF s = <<>> THEN 0
  ELSE 10 * Atoi(SubSeq(s, 1, Len(s) - 1))
         + (CHOOSE d \in 0..9 : DecimalDigits[d + 1] = s[Len(s)])

Stored(value, passphrase, state, custid, ttl) ==
  [value |-> value, passphrase |-> passphrase, state |-> state, custid |-> custid,
   ttl |-> ttl]

\* The index of the secret with secret key k (0: none).
IndexOfSecretKey(st, k) ==
  IF \E i \in 1..Len(st) : SecretKeyOf(i) = k
  THEN CHOOSE i \in 1..Len(st) : SecretKeyOf(i) = k
  ELSE 0

\* The index of the secret with metadata key k (0: none).
IndexOfMetadataKey(st, k) ==
  IF \E i \in 1..Len(st) : MetadataKeyOf(i) = k
  THEN CHOOSE i \in 1..Len(st) : MetadataKeyOf(i) = k
  ELSE 0

\* The metadata the service reports for its i-th secret: the secret key is
\* cleared once the secret is consumed or destroyed.
ServiceKeyResponse(st, i, value, age) ==
  [KeyResponse(st[i].custid, MetadataKeyOf(i),
               IF st[i].state = "new" THEN SecretKeyOf(i) ELSE EmptyStr,
               st[i].state, value, st[i].passphrase # EmptyStr)
     EXCEPT !.ttl = 2 * st[i].ttl,
            !.metadata_ttl = 2 * st[i].ttl - age,
            !.secret_ttl = st[i].ttl - age]

Reply(st, status, body) == [store |-> st, status |-> status, body |-> body]

UnknownSecret(st) == Reply(st, 404, ErrorBody(MsgUnknown))

\* POST share and POST generate: store a secret, state new.
ServeStore(st, value, passphrase, custid, ttl, age) ==
  IF value = EmptyStr
  THEN Reply(st, 404, ErrorBody(MsgInvalid))
  ELSE LET st2 == Append(st, Stored(value, passphrase, "new", custid, ttl))
       IN Reply(st2, 200, KeyBody(ServiceKeyResponse(st2, Len(st2), value, age)))

\* POST secret/<key>: hand the value out once.
ServeSecret(st, k, passphrase) ==
  LET i == IndexOfSecretKey(st, k)
  IN IF i = 0 \/ st[i].state # "new" \/ st[i].passphrase # passphrase
     THEN UnknownSecret(st)
     ELSE LET st2 == [st EXCEPT ![i].state = "received"]
          IN Reply(st2, 200,
                   KeyBody(KeyResponse(EmptyStr, EmptyStr, k, "", st[i].value, FALSE)))

\* POST private/<key>/burn: destroy an unread secret.
ServeBurn(st, k, passphrase, age) ==
  LET i == IndexOfMetadataKey(st, k)
  IN IF i = 0 \/ st[i].state # "new" \/ st[i].passphrase # passphrase
     THEN UnknownSecret(st)
     ELSE LET st2 == [st EXCEPT ![i].state = "burned"]
          IN Reply(st2, 200, BurnBody(ServiceKeyResponse(st2, i, EmptyStr, age)))

\* POST private/<key>: a read-only query.
ServeMetadata(st, k, age) ==
  LET i == IndexOfMetadataKey(st, k)
  IN IF i = 0 THEN UnknownSecret(st)
     ELSE Reply(st, 200, KeyBody(ServiceKeyResponse(st, i, EmptyStr, age)))

\* GET private/recent: a read-only query.
ServeRecent(st, age) ==
  Reply(st, 200,
        ListBody([i \in 1..Len(st) |->
                    [ServiceKeyResponse(st, i, EmptyStr, age)
                       EXCEPT !.secret_key = EmptyStr]]))

\* GET status: a read-only query; health is the service's current status.
ServeStatus(st, health) == Reply(st, 200, StatusBody(health))

\* The service's handling of one request, which takes it age seconds: the
\* path segment and the query values are unescaped once.
Serve(st, req, health, age) ==
  LET k == PathUnescape(req.seg)
      q == [n \in DOMAIN req.query |-> QueryUnescape(req.query[n])]
  IN CASE req.route = "share" ->
            ServeStore(st, q.secret, q.passphrase, req.user, Atoi(q.ttl), age)
       [] req.route = "generate" ->
            ServeStore(st, SecretG, q.passphrase, req.user, Atoi(q.ttl), age)
       [] req.route = "secret"   -> ServeSecret(st, k, q.passphrase)
       [] req.route = "burn"     -> ServeBurn(st, k, q.passphrase, age)
       [] req.route = "private"  -> ServeMetadata(st, k, age)
       [] req.route = "recent"   -> ServeRecent(st, age)
       [] req.route = "status"   -> ServeStatus(st, health)


\* ------------------------------------------------------------- the network

\* What happens to one HTTP request: the service's answer arrives; the
\* request never reaches the service; the service handles it and the answer
\* is lost; the answer's body arrives damaged; or an intermediary answers in
\* the service's place with a non-2xx status and an error envelope.  delay:
\* the seconds the service takes to answer.
Outcome(kind, status, message) ==
  [kind |-> kind, status |-> status, message |-> message, delay |-> 0]

Answered == Outcome("answered", 0, "")

\* The service's answer arrives, d seconds after it stored the secret.
Delayed(d) == [Answered EXCEPT !.delay = d]

GatewayOutcomes ==
  {Outcome("gateway", 199, MsgUnknown), Outcome("gateway", 300, MsgInvalid),
   Outcome("gateway", 500, MsgOther)}

Outcomes ==
  {Answered, Outcome("unreached", 0, ""), Outcome("lost", 0, ""),
   Outcome("garbled", 0, "")} \cup GatewayOutcomes

\* What the client receives: failed means http.DefaultClient.Do or
\* io.ReadAll returned an error.
Response(store, failed, status, body) ==
  [store |-> store, failed |-> failed, status |-> status, body |-> body]

\* The network between the client and the service: r is the service's
\* handling of the request, should the request reach it.
Deliver(st, r, o) ==
  CASE o.kind = "answered"  -> Response(r.store, FALSE, r.status, r.body)
    [] o.kind = "unreached" -> Response(st, TRUE, 0, GarbageBody)
    [] o.kind = "lost"      -> Response(r.store, TRUE, 0, GarbageBody)
    [] o.kind = "garbled"   -> Response(r.store, FALSE, r.status, GarbageBody)
    [] o.kind = "gateway"   -> Response(st, FALSE, o.status, ErrorBody(o.message))

\* http.DefaultClient.Do and io.ReadAll
Exchange(st, req, health, o) == Deliver(st, Serve(st, req, health, o.delay), o)

\* -------------------------------------------------------------- the client

SecretStateOther == "other"

SecretStateBurned == "burned"

SecretStateNew == "new"

SecretStateReceived == "received"

SecretStateViewed == "viewed"

SystemStatusOther == "other"

SystemStatusNominal == "nominal"

SystemStatusOffline == "offline"

\* parseSecretState that hands an unrecognized string on as the state.
parseSecretStateVerbatim(s) == s

\* parseSecretState without the case for "burned".
parseSecretStateNoBurned(s) ==
  CASE s = "new"      -> SecretStateNew
    [] s = "received" -> SecretStateReceived
    [] s = "viewed"   -> SecretStateViewed
    [] OTHER          -> SecretStateOther

parseSecretState(s) ==
  CASE s = "burned"   -> SecretStateBurned
    [] s = "new"      -> SecretStateNew
    [] s = "received" -> SecretStateReceived
    [] s = "viewed"   -> SecretStateViewed
    [] OTHER          -> SecretStateOther

parseSystemStatus(s) ==
  CASE s = "nominal" -> SystemStatusNominal
    [] s = "offline" -> SystemStatusOffline
    [] OTHER         -> SystemStatusOther

\* Metadata{}: the zero value.
ZeroMetadata ==
  [CustomerID |-> EmptyStr, MetadataKey |-> EmptyStr, SecretKey |-> EmptyStr,
   InitialMetadataTTL |-> 0, MetadataTTL |-> 0, SecretTTL |-> 0,
   State |-> "", HasPassphrase |-> FALSE]

\* fromKeyResponse with the initial and the current metadata TTL taken for
\* each other.
MetadataFromKeyResponseSwapped(kr) ==
  [CustomerID |-> kr.custid, MetadataKey |-> kr.metadata_key,
   SecretKey |-> kr.secret_key,
   InitialMetadataTTL |-> kr.metadata_ttl, MetadataTTL |-> kr.ttl,
   SecretTTL |-> kr.secret_ttl, State |-> parseSecretState(kr.state),
   HasPassphrase |-> kr.passphrase_required]

\* (*Metadata).fromKeyResponse on a zero Metadata.
MetadataFromKeyResponse(kr) ==
  [CustomerID |-> kr.custid, MetadataKey |-> kr.metadata_key,
   SecretKey |-> kr.secret_key,
   InitialMetadataTTL |-> kr.ttl, MetadataTTL |-> kr.metadata_ttl,
   SecretTTL |-> kr.secret_ttl, State |-> parseSecretState(kr.state),
   HasPassphrase |-> kr.passphrase_required]

\* (*PartialMetadata).fromKeyResponse on a zero PartialMetadata.
PartialFromKeyResponse(kr) ==
  [CustomerID |-> kr.custid, MetadataKey |-> kr.metadata_key,
   InitialMetadataTTL |-> kr.ttl, MetadataTTL |-> kr.metadata_ttl,
   SecretTTL |-> kr.secret_ttl, State |-> parseSecretState(kr.state)]

\* json.Unmarshal(respBody, &er): the message of an error envelope; a JSON
\* object without a message field leaves it empty.
UnmarshalError(body) ==
  CASE body.shape = "error" -> [err |-> Nil, message |-> body.message]
    [] body.shape \in {"garbage", "list"} -> [err |-> ErrJSON, message |-> ""]
    [] OTHER -> [err |-> Nil, message |-> ""]

\* The zero value of what a method decodes into.
ZeroOut(kind) ==
  CASE kind = "key"    -> ZeroKeyResponse
    [] kind = "burn"   -> [State |-> ZeroKeyResponse]
    [] kind = "list"   -> <<>>
    [] kind = "status" -> [Status |-> ""]

\* json.Unmarshal(respBody, out) for the value a method decodes into.
Unmarshal(body, kind) ==
  CASE body.shape = "garbage" -> [err |-> ErrJSON, out |-> ZeroOut(kind)]
    [] body.shape = "key" /\ kind = "key" -> [err |-> Nil, out |-> body.kr]
    [] body.shape = "burn" /\ kind = "burn" ->
         [err |-> Nil, out |-> [State |-> body.state]]
    [] body.shape = "list" /\ kind = "list" -> [err |-> Nil, out |-> body.krs]
    [] body.shape = "status" /\ kind = "status" ->
         [err |-> Nil, out |-> [Status |-> body.status]]
    [] body.shape = "error" /\ kind # "list" -> [err |-> Nil, out |-> ZeroOut(kind)]
    [] OTHER -> [err |-> ErrJSON, out |-> ZeroOut(kind)]

\* ClassifyMessage with the two special messages taken for each other.
ClassifyMessageSwapped(message) ==
  CASE message = MsgInvalid -> ErrNotFound
    [] message = MsgUnknown -> ErrInvalid
    [] OTHER                -> GenericError(message)

\* The switch on er.Message in (*Client).do.
ClassifyMessage(message) ==
  CASE message = MsgInvalid -> ErrInvalid
    [] message = MsgUnknown -> ErrNotFound
    [] OTHER                -> GenericError(message)

\* IsErrorStatus that takes only a server error for an error.
IsErrorStatusFrom500(status) == status >= 500

\* IsErrorStatus with the lower bound off by one.
IsErrorStatusInclusive(status) == status <= 200 \/ status >= 300

\* resp.StatusCode < 200 || resp.StatusCode >= 300
IsErrorStatus(status) == status < 200 \/ status >= 300

\* The request (*Client).do builds from the client's credentials, the path
\* and the query.  path.seg is the path's key segment as the caller escaped
\* it; URL.String escapes the path once more.
NewRequest(c, method, path, query) ==
  [method |-> method, route |-> path.route, seg |-> EscapedPath(path.seg),
   query |-> [n \in DOMAIN query |-> QueryEscape(query[n])],
   user |-> c.Username, key |-> c.Key]

\* What (*Client).do leaves: the error, the decoded value, the requests
\* handed to http.DefaultClient.Do, and the response received (status 0:
\* none).
DoResult(x, req, o, err, out) ==
  [store |-> x.store, err |-> err, out |-> out, status |-> x.status,
   body |-> x.body, sent |-> <<req>>, outcome |-> o.kind]

\* (*Client).do from the response on: x is what http.DefaultClient.Do and
\* io.ReadAll returned.
Receive(x, req, kind, o) ==
  IF x.failed THEN DoResult(x, req, o, ErrTransport, ZeroOut(kind))
  ELSE IF IsErrorStatus(x.status)
  THEN IF UnmarshalError(x.body).err # Nil
       THEN DoResult(x, req, o, UnmarshalError(x.body).err, ZeroOut(kind))
       ELSE DoResult(x, req, o, ClassifyMessage(UnmarshalError(x.body).message),
                     ZeroOut(kind))
  ELSE DoResult(x, req, o, Unmarshal(x.body, kind).err, Unmarshal(x.body, kind).out)

\* A second request when the first met a transport error.
RetryOnce(first, req, kind, health, o) ==
  IF first.err = ErrTransport
  THEN [Receive(Exchange(first.store, req, health, o), req, kind, o)
          EXCEPT !.sent = <<req, req>>]
  ELSE first

\* Send that retries once.
SendRetrying(st, req, kind, health, o) ==
  RetryOnce(Receive(Exchange(st, req, health, o), req, kind, o), req, kind, health, o)

\* (*Client).do for a request already built: one call of
\* http.DefaultClient.Do.
Send(st, req, kind, health, o) ==
  Receive(Exchange(st, req, health, o), req, kind, o)

\* (*Client).do
do(st, c, method, path, query, kind, health, o) ==
  Send(st, NewRequest(c, method, path, query), kind, health, o)

\* A path of the API: the route and, escaped by the caller, the key segment.
ApiPath(route, seg) == [route |-> route, seg |-> seg]

\* What one call returned, with what it was called with.
CallResult(op, key, secret, passphrase, r, value, meta, list, sysstatus) ==
  [op |-> op, key |-> key, secret |-> secret, passphrase |-> passphrase,
   ttl |-> 0, recipient |-> EmptyStr,
   outcome |-> r.outcome, status |-> r.status, body |-> r.body,
   sent |-> r.sent, err |-> r.err, value |-> value, meta |-> meta,
   list |-> list, sysstatus |-> sysstatus, url |-> <<>>,
   store |-> r.store]

\* What a method asks of do: the HTTP method, the path, the query and the
\* kind of value the response is decoded into; with the method's name and
\* arguments.
Invocation(op, key, secret, passphrase, ttl, recipient, method, path, query, kind) ==
  [op |-> op, key |-> key, secret |-> secret, passphrase |-> passphrase,
   ttl |-> ttl, recipient |-> recipient, method |-> method, path |-> path,
   query |-> query, kind |-> kind]

\* c.do(method, path, query, nil, &out) for an invocation.
Call(st, c, inv, health, o) ==
  do(st, c, inv.method, inv.path, inv.query, inv.kind, health, o)

\* Get that returns the response's secret key in place of its value.
GetReturnsKey(secretKey, passphrase, r) ==
  CallResult("Get", secretKey, EmptyStr, passphrase, r,
             IF r.err # Nil THEN EmptyStr ELSE r.out.secret_key,
             ZeroMetadata, <<>>, "")

\* (*Client).Get from the return of do on.
GetReturn(secretKey, passphrase, r) ==
  CallResult("Get", secretKey, EmptyStr, passphrase, r,
             IF r.err # Nil THEN EmptyStr ELSE r.out.value,
             ZeroMetadata, <<>>, "")

\* Get that does not add the passphrase it was given to the query.
GetWithoutPassphrase(st, c, secretKey, passphrase, o) ==
  GetReturn(secretKey, passphrase,
            do(st, c, "POST", ApiPath("secret", PathEscape(secretKey)),
               [passphrase |-> EmptyStr], "key", SystemStatusNominal, o))

\* What (*Client).Get asks of do.
GetInvocation(secretKey, passphrase) ==
  Invocation("Get", secretKey, EmptyStr, passphrase, 0, EmptyStr,
             "POST", ApiPath("secret", PathEscape(secretKey)),
             [passphrase |-> passphrase], "key")

\* (*Client).Get
Get(st, c, secretKey, passphrase, o) ==
  GetReturn(secretKey, passphrase,
            Call(st, c, GetInvocation(secretKey, passphrase),
                 SystemStatusNominal, o))

\* (*Client).Put from the return of do on.
PutReturn(secret, passphrase, secretTTL, recipient, r) ==
  [CallResult("Put", EmptyStr, secret, passphrase, r, EmptyStr,
              IF r.err # Nil THEN ZeroMetadata ELSE MetadataFromKeyResponse(r.out),
              <<>>, "")
     EXCEPT !.ttl = secretTTL, !.recipient = recipient]

\* What (*Client).Put asks of do.
PutInvocation(secret, passphrase, secretTTL, recipient) ==
  Invocation("Put", EmptyStr, secret, passphrase, secretTTL, recipient,
             "POST", ApiPath("share", EmptyStr),
             [secret |-> secret, passphrase |-> passphrase,
              ttl |-> Sprint(secretTTL), recipient |-> recipient], "key")

\* (*Client).Put
Put(st, c, secret, passphrase, secretTTL, recipient, o) ==
  PutReturn(secret, passphrase, secretTTL, recipient,
            Call(st, c, PutInvocation(secret, passphrase, secretTTL, recipient),
                 SystemStatusNominal, o))

\* (*Client).Generate from the return of do on.
GenerateReturn(passphrase, secretTTL, recipient, r) ==
  [CallResult("Generate", EmptyStr, EmptyStr, passphrase, r,
              IF r.err # Nil THEN EmptyStr ELSE r.out.value,
              IF r.err # Nil THEN ZeroMetadata ELSE MetadataFromKeyResponse(r.out),
              <<>>, "")
     EXCEPT !.ttl = secretTTL, !.recipient = recipient]

\* What (*Client).Generate asks of do.
GenerateInvocation(passphrase, secretTTL, recipient) ==
  Invocation("Generate", EmptyStr, EmptyStr, passphrase, secretTTL, recipient,
             "POST", ApiPath("generate", EmptyStr),
             [passphrase |-> passphrase, ttl |-> Sprint(secretTTL),
              recipient |-> recipient], "key")

\* (*Client).Generate
Generate(st, c, passphrase, secretTTL, recipient, o) ==
  GenerateReturn(passphrase, secretTTL, recipient,
                 Call(st, c, GenerateInvocation(passphrase, secretTTL, recipient),
                      SystemStatusNominal, o))

\* (*Client).Burn from the return of do on.
BurnReturn(metadataKey, passphrase, r) ==
  CallResult("Burn", metadataKey, EmptyStr, passphrase, r, EmptyStr,
             IF r.err # Nil THEN ZeroMetadata
             ELSE MetadataFromKeyResponse(r.out.State),
             <<>>, "")

\* Burn that posts to the metadata path, without "/burn".
BurnWrongPath(st, c, metadataKey, passphrase, o) ==
  BurnReturn(metadataKey, passphrase,
             do(st, c, "POST", ApiPath("private", PathEscape(metadataKey)),
                [passphrase |-> passphrase], "burn", SystemStatusNominal, o))

\* What (*Client).Burn asks of do.
BurnInvocation(metadataKey, passphrase) ==
  Invocation("Burn", metadataKey, EmptyStr, passphrase, 0, EmptyStr,
             "POST", ApiPath("burn", PathEscape(metadataKey)),
             [passphrase |-> passphrase], "burn")

\* (*Client).Burn
Burn(st, c, metadataKey, passphrase, o) ==
  BurnReturn(metadataKey, passphrase,
             Call(st, c, BurnInvocation(metadataKey, passphrase),
                  SystemStatusNominal, o))

\* (*Client).GetMetadata from the return of do on.
GetMetadataReturn(metadataKey, r) ==
  CallResult("GetMetadata", metadataKey, EmptyStr, EmptyStr, r, EmptyStr,
             IF r.err # Nil THEN ZeroMetadata ELSE MetadataFromKeyResponse(r.out),
             <<>>, "")

\* What (*Client).GetMetadata asks of do.
GetMetadataInvocation(metadataKey) ==
  Invocation("GetMetadata", metadataKey, EmptyStr, EmptyStr, 0, EmptyStr,
             "POST", ApiPath("private", PathEscape(metadataKey)), << >>, "key")

\* (*Client).GetMetadata
GetMetadata(st, c, metadataKey, o) ==
  GetMetadataReturn(metadataKey,
                    Call(st, c, GetMetadataInvocation(metadataKey),
                         SystemStatusNominal, o))

\* (*Client).GetRecentMetadata from the return of do on.
GetRecentMetadataReturn(r) ==
  CallResult("GetRecentMetadata", EmptyStr, EmptyStr, EmptyStr, r, EmptyStr,
             ZeroMetadata,
             IF r.err # Nil THEN <<>>
             ELSE [i \in 1..Len(r.out) |-> PartialFromKeyResponse(r.out[i])],
             "")

\* What (*Client).GetRecentMetadata asks of do.
GetRecentMetadataInvocation ==
  Invocation("GetRecentMetadata", EmptyStr, EmptyStr, EmptyStr, 0, EmptyStr,
             "GET", ApiPath("recent", EmptyStr), << >>, "list")

\* (*Client).GetRecentMetadata
GetRecentMetadata(st, c, o) ==
  GetRecentMetadataReturn(Call(st, c, GetRecentMetadataInvocation,
                               SystemStatusNominal, o))

\* (*Client).GetSystemStatus from the return of do on.
GetSystemStatusReturn(r) ==
  CallResult("GetSystemStatus", EmptyStr, EmptyStr, EmptyStr, r, EmptyStr,
             ZeroMetadata, <<>>,
             IF r.err # Nil THEN "" ELSE parseSystemStatus(r.out.Status))

\* What (*Client).GetSystemStatus asks of do.
GetSystemStatusInvocation ==
  Invocation("GetSystemStatus", EmptyStr, EmptyStr, EmptyStr, 0, EmptyStr,
             "GET", ApiPath("status", EmptyStr), << >>, "status")

\* (*Client).GetSystemStatus
GetSystemStatus(st, c, health, o) ==
  GetSystemStatusReturn(Call(st, c, GetSystemStatusInvocation, health, o))

\* What a method returns to its caller when do has returned r.
Return(inv, r) ==
  CASE inv.op = "Get" -> GetReturn(inv.key, inv.passphrase, r)
    [] inv.op = "Put" ->
         PutReturn(inv.secret, inv.passphrase, inv.ttl, inv.recipient, r)
    [] inv.op = "Generate" ->
         GenerateReturn(inv.passphrase, inv.ttl, inv.recipient, r)
    [] inv.op = "Burn" -> BurnReturn(inv.key, inv.passphrase, r)
    [] inv.op = "GetMetadata" -> GetMetadataReturn(inv.key, r)
    [] inv.op = "GetRecentMetadata" -> GetRecentMetadataReturn(r)
    [] inv.op = "GetSystemStatus" -> GetSystemStatusReturn(r)

\* What the method named op asks of do when called with these arguments
\* (key: the secret key of Get, the metadata key of Burn and GetMetadata).
InvocationOf(op, key, secret, passphrase, secretTTL, recipient) ==
  CASE op = "Get" -> GetInvocation(key, passphrase)
    [] op = "Put" -> PutInvocation(secret, passphrase, secretTTL, recipient)
    [] op = "Generate" -> GenerateInvocation(passphrase, secretTTL, recipient)
    [] op = "Burn" -> BurnInvocation(key, passphrase)
    [] op = "GetMetadata" -> GetMetadataInvocation(key)
    [] op = "GetRecentMetadata" -> GetRecentMetadataInvocation
    [] op = "GetSystemStatus" -> GetSystemStatusInvocation

\* "secret/" and "private/"
SecretPrefix == <<"s", "e", "c", "r", "e", "t", "/">>

PrivatePrefix == <<"p", "r", "i", "v", "a", "t", "e", "/">>

\* AppendPath on the package's variable itself, without the copy.
AppendPathInPlace(base, path) ==
  [u |-> [base EXCEPT !.Path = @ \o path],
   baseURL |-> [base EXCEPT !.Path = @ \o path]]

\* u := baseURL; u.Path += path: the local u, and the package's baseURL
\* after it.
AppendPath(base, path) ==
  [u |-> [base EXCEPT !.Path = @ \o path], baseURL |-> base]

\* SecretURL without the check for an empty secret key.
SecretURLUnchecked(base, m) ==
  [url |-> <<AppendPath(base, SecretPrefix \o PathEscape(m.SecretKey)).u>>,
   err |-> Nil,
   baseURL |-> AppendPath(base, SecretPrefix \o PathEscape(m.SecretKey)).baseURL]

\* Metadata.SecretURL: url is the URL returned (none: a nil pointer).
SecretURL(base, m) ==
  IF m.SecretKey = EmptyStr
  THEN [url |-> <<>>, err |-> ErrDestroyed, baseURL |-> base]
  ELSE [url |-> <<AppendPath(base, SecretPrefix \o PathEscape(m.SecretKey)).u>>,
        err |-> Nil,
        baseURL |-> AppendPath(base, SecretPrefix \o PathEscape(m.SecretKey)).baseURL]

\* Metadata.MetadataURL
MetadataURL(base, m) ==
  [url |-> <<AppendPath(base, PrivatePrefix \o PathEscape(m.MetadataKey)).u>>,
   err |-> Nil,
   baseURL |-> AppendPath(base, PrivatePrefix \o PathEscape(m.MetadataKey)).baseURL]

\* "api/v1/"
ApiPrefix == <<"a", "p", "i", "/", "v", "1", "/">>

\* The path of the API a method passes to do, as characters.
PathChars(path) ==
  CASE path.route = "share"    -> <<"s", "h", "a", "r", "e">>
    [] path.route = "generate" -> <<"g", "e", "n", "e", "r", "a", "t", "e">>
    [] path.route = "secret"   -> SecretPrefix \o path.seg
    [] path.route = "burn"     -> PrivatePrefix \o path.seg \o <<"/", "b", "u", "r", "n">>
    [] path.route = "private"  -> PrivatePrefix \o path.seg
    [] path.route = "recent"   -> PrivatePrefix \o <<"r", "e", "c", "e", "n", "t">>
    [] path.route = "status"   -> <<"s", "t", "a", "t", "u", "s">>


\* ------------------------------------------------------------------- state

VARIABLES
  store,      \* the service's secrets, in the order they were stored
  client,     \* the Client: Username and Key
  baseURL,    \* the package's base URL
  last,       \* the most recent call: its arguments and what it returned
  retrieved,  \* the secret keys a Get of this client has returned the value of
  burned,     \* the metadata keys a Burn of this client has destroyed
  cli,        \* the process of the command-line program
  calls       \* per concurrent caller, the call of a client method in flight

vars == <<store, client, baseURL, last, retrieved, burned, cli, calls>>

\* The goroutines that share the Client.
Callers == {1, 2}

\* A caller's position in (*Client).do: the invocation, the request built,
\* its URL, and what http.DefaultClient.Do and io.ReadAll returned.
InFlight(pc, inv, req, u, x, o) ==
  [pc |-> pc, inv |-> inv, req |-> req, u |-> u, x |-> x, o |-> o]

\* A caller between two calls.
Idle == InFlight("idle", <<>>, <<>>, <<>>, <<>>, <<>>)

\* The Client after construction, as the tests and the examples build it.
NewClient == [Username |-> <<"u">>, Key |-> <<"k">>]

\* var baseURL = url.URL{Scheme: "https", Host: "onetimesecret.com"}
PackageBaseURL == [Scheme |-> "https", Host |-> "onetimesecret.com", Path |-> EmptyStr]

\* The service's status values a status request may find.
Healths == {"nominal", "maintenance"}

\* What a call leaves to the caller: everything but the service's state.
Observed(r) == [f \in DOMAIN r \ {"store"} |-> r[f]]

NoCall ==
  [op |-> "none", key |-> EmptyStr, secret |-> EmptyStr, passphrase |-> EmptyStr,
   ttl |-> 0, recipient |-> EmptyStr,
   outcome |-> "none", status |-> 0, body |-> GarbageBody, sent |-> <<>>,
   err |-> Nil, value |-> EmptyStr, meta |-> ZeroMetadata, list |-> <<>>,
   sysstatus |-> "", url |-> <<>>]

\* ------------------------------------------------ the command-line program
\* Translated from src/cmd/ots/main.go.  Command names, flag names and log
\* lines are TLA+ strings; credentials, positional arguments, flag values and
\* the bytes of standard input are sequences of characters.

stdinArg == <<"-">>

\* The names of cmdTypes.
CmdNames == {"burn", "gen", "get", "meta", "put", "recent", "status"}

HelpWords == {"help", "-h", "-help", "--help"}

\* The flags main defines for every command.
MainFlags == {"username", "key", "json"}

\* The flags each command's AddFlags defines.
AddFlags(name) ==
  CASE name \in {"burn", "get"} -> {"passphrase"}
    [] name \in {"gen", "put"}  -> {"passphrase", "ttl"}
    [] OTHER                    -> {}

\* os.Args: the command name ("" for none), for help the command asked
\* about, the names of the flags given, the values flags.Parse leaves for
\* each flag (its default when it is not given) and the positional arguments.
Argv(name, topic, given, username, key, passphrase, secretTTL, args) ==
  [name |-> name, topic |-> topic, given |-> given, username |-> username,
   key |-> key, passphrase |-> passphrase, secretTTL |-> secretTTL,
   args |-> args]

NoArgv == Argv("", "", {}, EmptyStr, EmptyStr, EmptyStr, 0, <<>>)

\* The environment variables OTS_USERNAME and OTS_KEY (empty: not set).
Env(username, key) == [OTS_USERNAME |-> username, OTS_KEY |-> key]

\* The config file as loadConfig finds it: its fields (empty for a field or a
\* file that is not there), or err for a file that does not decode.
Config(username, key, err) == [Username |-> username, Key |-> key, err |-> err]

\* Standard input: whether it is a terminal, the bytes not yet read, and
\* whether reading it fails.
Stdin(terminal, data, broken) ==
  [terminal |-> terminal, data |-> data, broken |-> broken]

NoStdin == Stdin(FALSE, EmptyStr, FALSE)

\* var client ots.Client
ZeroClient == [Username |-> EmptyStr, Key |-> EmptyStr]

LogNoCommand == "ots is a command-line interface to One-Time Secret"

LogUnknownCommand == "Unknown command"

LogFlag == "flag provided but not defined"

LogConfig == "error reading config"

LogMissingUsername == "missing username; run 'ots help'"

LogMissingKey == "missing key; run 'ots help'"

\* The error a read of standard input returns.
ErrRead == "read /dev/stdin: input/output error"

ErrEOF == "EOF"

\* The process of one invocation: where it is (pc: resolve, before the
\* credentials are resolved; run, before the command's Run; ran, after it;
\* exited), what it was started with, what Run returned (err, and usage: err
\* is a usageErr), the prompts it read from standard input, what it printed,
\* and its exit code and last log line.
Process(pc, argv, env, cfg, stdin, err, usage, reads, out, exit, log) ==
  [pc |-> pc, argv |-> argv, env |-> env, cfg |-> cfg, stdin |-> stdin,
   err |-> err, usage |-> usage, reads |-> reads, out |-> out, exit |-> exit,
   log |-> log]

\* os.Exit(code) after log has been written: nothing of the process is left
\* but its exit code and what it logged.
Exited(code, log) ==
  Process("exited", NoArgv, Env(EmptyStr, EmptyStr),
          Config(EmptyStr, EmptyStr, FALSE), NoStdin, Nil, FALSE, <<>>, <<>>,
          code, log)

\* main up to the loading of the config file: the process with its flags
\* parsed, or its exit.
mainParse(argv, env, cfg, stdin) ==
  IF argv.name = "" THEN Exited(1, LogNoCommand)
  ELSE IF argv.name \in HelpWords
  THEN IF argv.topic = "" \/ argv.topic \in CmdNames
       THEN Exited(0, Nil)
       ELSE Exited(1, LogUnknownCommand)
  ELSE IF argv.name \notin CmdNames THEN Exited(1, LogUnknownCommand)
  ELSE IF ~(argv.given \subseteq MainFlags \cup AddFlags(argv.name))
  THEN Exited(1, LogFlag)
  ELSE IF cfg.err THEN Exited(1, LogConfig)
  ELSE Process("resolve", argv, env, cfg, stdin, Nil, FALSE, <<>>, <<>>, 0, Nil)

\* The client as flags.Parse leaves it.
FlagClient(argv) == [Username |-> argv.username, Key |-> argv.key]

\* OrElse that takes the second value whenever there is one.
OrElseSecond(v, w) == IF w = EmptyStr THEN v ELSE w

\* if v == "" { v = w }
OrElse(v, w) == IF v = EmptyStr THEN w ELSE v

\* The resolution of client.Username.
ResolveUsername(c, env, cfg) ==
  [c EXCEPT !.Username = OrElse(OrElse(@, env.OTS_USERNAME), cfg.Username)]

\* The resolution of client.Key.
ResolveKey(c, env, cfg) ==
  [c EXCEPT !.Key = OrElse(OrElse(@, env.OTS_KEY), cfg.Key)]

\* MissingCredential that does not look at the key.
MissingCredentialUsernameOnly(c) ==
  IF c.Username = EmptyStr THEN LogMissingUsername ELSE Nil

\* What log.Fatalln is called with for a resolved client (Nil: it is not
\* called).
MissingCredential(c) ==
  IF c.Username = EmptyStr THEN LogMissingUsername
  ELSE IF c.Key = EmptyStr THEN LogMissingKey
  ELSE Nil

\* The client main leaves: the key is resolved only when the username was
\* found.
mainClient(c, env, cfg) ==
  IF ResolveUsername(c, env, cfg).Username = EmptyStr
  THEN ResolveUsername(c, env, cfg)
  ELSE ResolveKey(ResolveUsername(c, env, cfg), env, cfg)

\* ---- reading standard input

\* What a read leaves: the value, standard input after it, the prompts read
\* and the error.
Read(v, stdin, reads, err) ==
  [v |-> v, stdin |-> stdin, reads |-> reads, err |-> err]

\* The index of the first newline of data (past its end: none).
NewlineAt(data) ==
  IF \E i \in 1..Len(data) : data[i] = "\n"
  THEN CHOOSE i \in 1..Len(data) :
         data[i] = "\n" /\ \A j \in 1..(i - 1) : data[j] # "\n"
  ELSE Len(data) + 1

FirstLine(data) == SubSeq(data, 1, NewlineAt(data) - 1)

AfterLine(data) == SubSeq(data, NewlineAt(data) + 1, Len(data))

\* readSecretFromTerminal: term.ReadPassword reads one line, byte by byte.
readSecretFromTerminal(v, stdin, prompt) ==
  IF stdin.broken THEN Read(v, stdin, <<prompt>>, ErrRead)
  ELSE IF stdin.data = EmptyStr THEN Read(v, stdin, <<prompt>>, ErrEOF)
  ELSE Read(FirstLine(stdin.data), [stdin EXCEPT !.data = AfterLine(@)],
            <<prompt>>, Nil)

\* readSecretShort: from a terminal as above; otherwise the first line a
\* bufio.Scanner finds (the empty string at the end of input).  The scanner
\* reads ahead of the line it returns: with ahead, it has taken all of
\* standard input.
readSecretShort(v, stdin, prompt, ahead) ==
  IF stdin.terminal THEN readSecretFromTerminal(v, stdin, prompt)
  ELSE IF stdin.broken THEN Read(v, stdin, <<prompt>>, ErrRead)
  ELSE Read(FirstLine(stdin.data),
            [stdin EXCEPT !.data = IF ahead THEN EmptyStr ELSE AfterLine(@)],
            <<prompt>>, Nil)

\* readSecretLong: from a terminal as above; otherwise all of standard input.
readSecretLong(v, stdin, prompt) ==
  IF stdin.terminal THEN readSecretFromTerminal(v, stdin, prompt)
  ELSE IF stdin.broken THEN Read(v, stdin, <<prompt>>, ErrRead)
  ELSE Read(stdin.data, [stdin EXCEPT !.data = EmptyStr], <<prompt>>, Nil)

\* if c.passphrase == stdinArg { readSecretShort(&c.passphrase, "passphrase") }
ReadPassphrase(passphrase, stdin, ahead) ==
  IF passphrase = stdinArg
  THEN readSecretShort(passphrase, stdin, "passphrase", ahead)
  ELSE Read(passphrase, stdin, <<>>, Nil)

\* ---- the commands

\* No call of a client method: the service is as it was.
NotCalled(st) ==
  [f \in DOMAIN NoCall \cup {"store"} |-> IF f = "store" THEN st ELSE NoCall[f]]

\* What a Run hook leaves: its error (usage: a usageErr), standard input,
\* the prompts read, the call of the client it made, and what it printed.
RunResult(err, usage, stdin, reads, call, out) ==
  [err |-> err, usage |-> usage, stdin |-> stdin, reads |-> reads,
   call |-> call, out |-> out]

usageErr(message, st, stdin) ==
  RunResult(message, TRUE, stdin, <<>>, NotCalled(st), <<>>)

\* A Run hook returns the error of a read.
ReadFailed(rd, st) ==
  RunResult(rd.err, FALSE, rd.stdin, rd.reads, NotCalled(st), <<>>)

\* A Run hook returns after its call r of the client: its error, or the
\* result printed.
Called(rd, r, out) ==
  RunResult(r.err, FALSE, rd.stdin, rd.reads, r, IF r.err # Nil THEN <<>> ELSE out)

\* burnCmd.Run from the read of the passphrase on.
burnCmdBurn(st, c, metadataKey, rd, o) ==
  IF rd.err # Nil THEN ReadFailed(rd, st)
  ELSE Called(rd, Burn(st, c, metadataKey, rd.v, o),
              <<Burn(st, c, metadataKey, rd.v, o).meta.MetadataKey>>)

\* burnCmd.Run without the check for too many arguments.
burnCmdRunFirstArg(st, c, passphrase, args, stdin, ahead, o) ==
  IF Len(args) < 1 THEN usageErr("missing arg: metadata-key", st, stdin)
  ELSE burnCmdBurn(st, c, args[1], ReadPassphrase(passphrase, stdin, ahead), o)

\* burnCmd.Run
burnCmdRun(st, c, passphrase, args, stdin, ahead, o) ==
  IF Len(args) < 1 THEN usageErr("missing arg: metadata-key", st, stdin)
  ELSE IF Len(args) > 1 THEN usageErr("too many args", st, stdin)
  ELSE burnCmdBurn(st, c, args[1], ReadPassphrase(passphrase, stdin, ahead), o)

\* generateCmd.Run from the read of the passphrase on.
generateCmdGenerate(st, c, secretTTL, rd, o) ==
  IF rd.err # Nil THEN ReadFailed(rd, st)
  ELSE Called(rd, Generate(st, c, rd.v, secretTTL, EmptyStr, o),
              <<Generate(st, c, rd.v, secretTTL, EmptyStr, o).value,
                Generate(st, c, rd.v, secretTTL, EmptyStr, o).meta.SecretKey,
                Generate(st, c, rd.v, secretTTL, EmptyStr, o).meta.MetadataKey>>)

\* generateCmd.Run
generateCmdRun(st, c, passphrase, secretTTL, args, stdin, ahead, o) ==
  IF Len(args) > 0 THEN usageErr("too many args", st, stdin)
  ELSE generateCmdGenerate(st, c, secretTTL,
                           ReadPassphrase(passphrase, stdin, ahead), o)

\* getCmd.Run from the read of the passphrase on.
getCmdGet(st, c, secretKey, rd, o) ==
  IF rd.err # Nil THEN ReadFailed(rd, st)
  ELSE Called(rd, Get(st, c, secretKey, rd.v, o),
              <<Get(st, c, secretKey, rd.v, o).value>>)

\* getCmd.Run
getCmdRun(st, c, passphrase, args, stdin, ahead, o) ==
  IF Len(args) < 1 THEN usageErr("missing arg: secret-key", st, stdin)
  ELSE IF Len(args) > 1 THEN usageErr("too many args", st, stdin)
  ELSE getCmdGet(st, c, args[1], ReadPassphrase(passphrase, stdin, ahead), o)

\* metadataCmd.Run
metadataCmdRun(st, c, args, stdin, o) ==
  IF Len(args) < 1 THEN usageErr("missing arg: metadata-key", st, stdin)
  ELSE IF Len(args) > 1 THEN usageErr("too many args", st, stdin)
  ELSE Called(Read(EmptyStr, stdin, <<>>, Nil), GetMetadata(st, c, args[1], o),
              <<GetMetadata(st, c, args[1], o).meta>>)

\* The secret of putCmd.Run: the positional argument when there is one,
\* whatever it is; otherwise what readSecretLong reads.  rd is the read of
\* the passphrase before it.
putCmdSecret(args, rd) ==
  IF Len(args) > 0 THEN Read(args[1], rd.stdin, rd.reads, Nil)
  ELSE [readSecretLong(EmptyStr, rd.stdin, "secret")
          EXCEPT !.reads = rd.reads \o @]

\* putCmd.Run from the secret on: rs is the read of the secret.
putCmdPut(st, c, passphrase, secretTTL, rs, o) ==
  IF rs.err # Nil THEN ReadFailed(rs, st)
  ELSE Called(rs, Put(st, c, rs.v, passphrase, secretTTL, EmptyStr, o),
              <<Put(st, c, rs.v, passphrase, secretTTL, EmptyStr, o).meta.SecretKey,
                Put(st, c, rs.v, passphrase, secretTTL, EmptyStr, o).meta.MetadataKey>>)

\* putCmd.Run from the read of the passphrase on.
putCmdRead(st, c, secretTTL, args, rd, o) ==
  IF rd.err # Nil THEN ReadFailed(rd, st)
  ELSE putCmdPut(st, c, rd.v, secretTTL, putCmdSecret(args, rd), o)

\* putCmd.Run
putCmdRun(st, c, passphrase, secretTTL, args, stdin, ahead, o) ==
  IF Len(args) > 1 THEN usageErr("too many args", st, stdin)
  ELSE putCmdRead(st, c, secretTTL, args,
                  ReadPassphrase(passphrase, stdin, ahead), o)

\* recentCmd.Run
recentCmdRun(st, c, args, stdin, o) ==
  IF Len(args) > 0 THEN usageErr("too many args", st, stdin)
  ELSE Called(Read(EmptyStr, stdin, <<>>, Nil), GetRecentMetadata(st, c, o),
              GetRecentMetadata(st, c, o).list)

\* statusCmd.Run
statusCmdRun(st, c, args, stdin, health, o) ==
  IF Len(args) > 0 THEN usageErr("too many args", st, stdin)
  ELSE Called(Read(EmptyStr, stdin, <<>>, Nil), GetSystemStatus(st, c, health, o),
              <<GetSystemStatus(st, c, health, o).sysstatus>>)

\* ----------------------------------------------------- the library's calls

Init ==
  /\ store = <<>>
  /\ client = NewClient
  /\ baseURL = PackageBaseURL
  /\ last = NoCall
  /\ retrieved = {}
  /\ burned = {}
  /\ cli = Exited(0, Nil)
  /\ calls = [g \in Callers |-> Idle]

PutCall(secret, passphrase, secretTTL, recipient, o) ==
  /\ secret # EmptyStr => Len(store) < MaxSecrets
  /\ \E r \in {Put(store, client, secret, passphrase, secretTTL, recipient, o)} :
        /\ store' = r.store
        /\ last' = Observed(r)
  /\ UNCHANGED <<client, baseURL, retrieved, burned, cli, calls>>

GenerateCall(passphrase, secretTTL, recipient, o) ==
  /\ Len(store) < MaxSecrets
  /\ \E r \in {Generate(store, client, passphrase, secretTTL, recipient, o)} :
        /\ store' = r.store
        /\ last' = Observed(r)
  /\ UNCHANGED <<client, baseURL, retrieved, burned, cli, calls>>

GetCall(secretKey, passphrase, o) ==
  /\ \E r \in {Get(store, client, secretKey, passphrase, o)} :
        /\ store' = r.store
        /\ last' = Observed(r)
        /\ retrieved' = IF r.err = Nil THEN retrieved \cup {secretKey} ELSE retrieved
  /\ UNCHANGED <<client, baseURL, burned, cli, calls>>

BurnCall(metadataKey, passphrase, o) ==
  /\ \E r \in {Burn(store, client, metadataKey, passphrase, o)} :
        /\ store' = r.store
        /\ last' = Observed(r)
        /\ burned' = IF r.err = Nil THEN burned \cup {metadataKey} ELSE burned
  /\ UNCHANGED <<client, baseURL, retrieved, cli, calls>>

GetMetadataCall(metadataKey, o) ==
  /\ \E r \in {GetMetadata(store, client, metadataKey, o)} :
        /\ store' = r.store
        /\ last' = Observed(r)
  /\ UNCHANGED <<client, baseURL, retrieved, burned, cli, calls>>

GetRecentMetadataCall(o) ==
  /\ \E r \in {GetRecentMetadata(store, client, o)} :
        /\ store' = r.store
        /\ last' = Observed(r)
  /\ UNCHANGED <<client, baseURL, retrieved, burned, cli, calls>>

GetSystemStatusCall(health, o) ==
  /\ \E r \in {GetSystemStatus(store, client, health, o)} :
        /\ store' = r.store
        /\ last' = Observed(r)
  /\ UNCHANGED <<client, baseURL, retrieved, burned, cli, calls>>

\* The caller asks for the sharing URL of the Metadata the last call returned.
SecretURLCall ==
  /\ \E r \in {SecretURL(baseURL, last.meta)} :
        /\ last' = [NoCall EXCEPT !.op = "SecretURL", !.meta = last.meta,
                                  !.url = r.url, !.err = r.err]
        /\ baseURL' = r.baseURL
  /\ UNCHANGED <<store, client, retrieved, burned, cli, calls>>

\* The caller asks for the management URL of the Metadata the last call returned.
MetadataURLCall ==
  /\ \E r \in {MetadataURL(baseURL, last.meta)} :
        /\ last' = [NoCall EXCEPT !.op = "MetadataURL", !.meta = last.meta,
                                  !.url = r.url, !.err = r.err]
        /\ baseURL' = r.baseURL
  /\ UNCHANGED <<store, client, retrieved, burned, cli, calls>>

Next ==
  \/ \E s \in Secrets, p \in Passphrases, t \in TTLs, rc \in Recipients,
        o \in Outcomes : PutCall(s, p, t, rc, o)
  \/ \E p \in Passphrases, t \in TTLs, rc \in Recipients, o \in Outcomes :
        GenerateCall(p, t, rc, o)
  \/ \E k \in SecretKeys, p \in Passphrases, o \in Outcomes : GetCall(k, p, o)
  \/ \E k \in MetadataKeys, p \in Passphrases, o \in Outcomes : BurnCall(k, p, o)
  \/ \E k \in MetadataKeys, o \in Outcomes : GetMetadataCall(k, o)
  \/ \E o \in Outcomes : GetRecentMetadataCall(o)
  \/ \E h \in Healths, o \in Outcomes : GetSystemStatusCall(h, o)
  \/ SecretURLCall
  \/ MetadataURLCall

Spec == Init /\ [][Next]_vars

\* The network outcomes of the calls that store: the service answers within
\* the tolerance of the tests, or is not reached.
TTLOutcomes ==
  {Delayed(d) : d \in 0..ttlAllowedError} \cup {Outcome("unreached", 0, "")}

NextTTL ==
  \/ \E s \in Secrets, p \in Passphrases, t \in TestTTLs, rc \in Recipients,
        o \in TTLOutcomes : PutCall(s, p, t, rc, o)
  \/ \E p \in Passphrases, t \in TestTTLs, rc \in Recipients, o \in TTLOutcomes :
        GenerateCall(p, t, rc, o)
  \/ \E k \in MetadataKeys, o \in TTLOutcomes : GetMetadataCall(k, o)

\* The calls that store and the metadata query, with the TTLs of the tests
\* and a service that takes up to ttlAllowedError seconds to answer.
SpecTTL == Init /\ [][NextTTL]_vars

\* ------------------------------------------------------ concurrent callers

\* (*Client).do up to http.NewRequest and SetBasicAuth, by caller g: reads
\* baseURL, c.Username and c.Key.
doBuild(g, op, key, secret, passphrase, secretTTL, recipient) ==
  /\ calls[g].pc = "idle"
  /\ \E inv \in {InvocationOf(op, key, secret, passphrase, secretTTL, recipient)} :
        \E a \in {AppendPath(baseURL, ApiPrefix \o PathChars(inv.path))} :
          /\ calls' = [calls EXCEPT ![g] =
                         InFlight("built", <<inv>>,
                                  <<NewRequest(client, inv.method, inv.path, inv.query)>>,
                                  <<a.u>>, <<>>, <<>>)]
          /\ baseURL' = a.baseURL
  /\ UNCHANGED <<store, client, last, retrieved, burned, cli>>

\* http.DefaultClient.Do and io.ReadAll of caller g's request.
doExchange(g, health, o) ==
  /\ calls[g].pc = "built"
  /\ calls[g].inv[1].op \in {"Put", "Generate"} => Len(store) < MaxSecrets
  /\ calls[g].inv[1].op # "GetSystemStatus" => health = SystemStatusNominal
  /\ \E x \in {Exchange(store, calls[g].req[1], health, o)} :
        /\ store' = x.store
        /\ calls' = [calls EXCEPT ![g].pc = "received",
                                  ![g].x = <<[x EXCEPT !.store = <<>>]>>,
                                  ![g].o = <<o>>]
  /\ UNCHANGED <<client, baseURL, last, retrieved, burned, cli>>

\* (*Client).do from the response on, and the method's return, for caller g.
doReturn(g) ==
  /\ calls[g].pc = "received"
  /\ \E r \in {Return(calls[g].inv[1],
                      Receive(calls[g].x[1], calls[g].req[1],
                              calls[g].inv[1].kind, calls[g].o[1]))} :
        last' = Observed(r)
  /\ calls' = [calls EXCEPT ![g] = Idle]
  /\ UNCHANGED <<store, client, baseURL, retrieved, burned, cli>>

\* The network outcomes of the concurrent calls.
ConcOutcomes == {Answered, Outcome("lost", 0, "")}

\* The keys the concurrent callers pass: those of the first secret stored.
ConcSecretKeys == {SecretKeyOf(1)}

ConcMetadataKeys == {MetadataKeyOf(1)}

NextConc ==
  \/ \E g \in Callers, k \in ConcSecretKeys :
        doBuild(g, "Get", k, EmptyStr, EmptyStr, 0, EmptyStr)
  \/ \E g \in Callers, t \in TTLs, rc \in Recipients :
        doBuild(g, "Put", EmptyStr, SecretA, EmptyStr, t, rc)
  \/ \E g \in Callers, t \in TTLs, rc \in Recipients :
        doBuild(g, "Generate", EmptyStr, EmptyStr, EmptyStr, t, rc)
  \/ \E g \in Callers, k \in ConcMetadataKeys :
        doBuild(g, "Burn", k, EmptyStr, EmptyStr, 0, EmptyStr)
  \/ \E g \in Callers, k \in ConcMetadataKeys :
        doBuild(g, "GetMetadata", k, EmptyStr, EmptyStr, 0, EmptyStr)
  \/ \E g \in Callers :
        doBuild(g, "GetRecentMetadata", EmptyStr, EmptyStr, EmptyStr, 0, EmptyStr)
  \/ \E g \in Callers :
        doBuild(g, "GetSystemStatus", EmptyStr, EmptyStr, EmptyStr, 0, EmptyStr)
  \/ \E g \in Callers, h \in Healths, o \in ConcOutcomes : doExchange(g, h, o)
  \/ \E g \in Callers : doReturn(g)
  \/ SecretURLCall
  \/ MetadataURLCall

\* Two goroutines call the methods of one Client, and SecretURL and
\* MetadataURL, in every interleaving of the steps of (*Client).do.
SpecConc == Init /\ [][NextConc]_vars

\* ------------------------------------------- a service with other states

\* The state strings a service may send: the four the client knows, the
\* empty string, and strings the client does not know.
ServerStates == {"new", "viewed", "received", "burned", "", "expired", "NEW"}

\* The key responses such a service sends.
ServerKeyResponses ==
  {KeyResponse(<<"u">>, MetadataKeyOf(1), sk, state, EmptyStr, pr) :
     sk \in {EmptyStr, SecretKeyOf(1)}, state \in ServerStates, pr \in BOOLEAN}

\* The key responses of a list: those that differ in the state only.
ServerListResponses ==
  {KeyResponse(<<"u">>, MetadataKeyOf(1), EmptyStr, state, EmptyStr, FALSE) :
     state \in ServerStates}

\* What a method returns when the service answers its request with the
\* given status and body: (*Client).do and the method's return.
Decoded(st, c, inv, status, body) ==
  Return(inv, Receive(Response(st, FALSE, status, body),
                      NewRequest(c, inv.method, inv.path, inv.query),
                      inv.kind, Answered))

\* Put, Generate, Burn or GetMetadata is called and the service answers
\* with the key response kr (for Burn, inside its burn envelope).
AnswerKey(op, secretTTL, recipient, kr) ==
  /\ \E r \in {Decoded(store, client,
                       InvocationOf(op, MetadataKeyOf(1), SecretA, EmptyStr,
                                    secretTTL, recipient),
                       200, IF op = "Burn" THEN BurnBody(kr) ELSE KeyBody(kr))} :
        last' = Observed(r)
  /\ UNCHANGED <<store, client, baseURL, retrieved, burned, cli, calls>>

\* GetRecentMetadata is called and the service answers with a list of two.
AnswerList(kr1, kr2) ==
  /\ \E r \in {Decoded(store, client, GetRecentMetadataInvocation, 200,
                       ListBody(<<kr1, kr2>>))} :
        last' = Observed(r)
  /\ UNCHANGED <<store, client, baseURL, retrieved, burned, cli, calls>>

\* GetMetadata is called and the service answers with an error envelope.
AnswerError(status, message) ==
  /\ \E r \in {Decoded(store, client, GetMetadataInvocation(MetadataKeyOf(1)),
                       status, ErrorBody(message))} :
        last' = Observed(r)
  /\ UNCHANGED <<store, client, baseURL, retrieved, burned, cli, calls>>

NextState ==
  \/ \E op \in {"Put", "Generate", "Burn", "GetMetadata"}, t \in TTLs,
        rc \in Recipients, kr \in ServerKeyResponses : AnswerKey(op, t, rc, kr)
  \/ \E kr1 \in ServerListResponses, kr2 \in ServerListResponses :
        AnswerList(kr1, kr2)
  \/ \E m \in {MsgUnknown, MsgOther} : AnswerError(404, m)

\* The methods that return metadata, called against a service that answers
\* with any of ServerStates.
SpecState == Init /\ [][NextState]_vars

\* ------------------------------------------- the command-line program runs

\* Before any invocation: no process, and no client.
InitCLI ==
  /\ store = <<>>
  /\ client = ZeroClient
  /\ baseURL = PackageBaseURL
  /\ last = NoCall
  /\ retrieved = {}
  /\ burned = {}
  /\ cli = Exited(0, Nil)
  /\ calls = [g \in Callers |-> Idle]

\* A process starts: main up to the loading of the config file.
mainStart(argv, env, cfg, stdin) ==
  /\ cli.pc = "exited"
  /\ argv.name \in {"put", "gen"} => Len(store) < MaxSecrets
  /\ \E p \in {mainParse(argv, env, cfg, stdin)} :
        /\ cli' = p
        /\ client' = IF p.pc = "exited" THEN ZeroClient ELSE FlagClient(argv)
  /\ UNCHANGED <<store, baseURL, last, retrieved, burned, calls>>

\* main resolves the credentials, and stops when one is missing.
mainResolve ==
  /\ cli.pc = "resolve"
  /\ \E c \in {mainClient(client, cli.env, cli.cfg)} :
        IF MissingCredential(c) # Nil
        THEN /\ cli' = Exited(1, MissingCredential(c))
             /\ client' = ZeroClient
        ELSE /\ cli' = [cli EXCEPT !.pc = "run"]
             /\ client' = c
  /\ UNCHANGED <<store, baseURL, last, retrieved, burned, calls>>

\* cmd.Run has returned r.
RunReturns(r) ==
  /\ store' = r.call.store
  /\ last' = Observed(r.call)
  /\ cli' = [cli EXCEPT !.pc = "ran", !.err = r.err, !.usage = r.usage,
                        !.stdin = r.stdin, !.reads = r.reads, !.out = r.out]

burnCmdRunCall(ahead, o) ==
  /\ cli.pc = "run"
  /\ cli.argv.name = "burn"
  /\ \E r \in {burnCmdRun(store, client, cli.argv.passphrase, cli.argv.args,
                          cli.stdin, ahead, o)} :
        /\ RunReturns(r)
        /\ burned' = IF r.call.op = "Burn" /\ r.err = Nil
                     THEN burned \cup {r.call.key} ELSE burned
  /\ UNCHANGED <<client, baseURL, retrieved, calls>>

generateCmdRunCall(ahead, o) ==
  /\ cli.pc = "run"
  /\ cli.argv.name = "gen"
  /\ \E r \in {generateCmdRun(store, client, cli.argv.passphrase,
                              cli.argv.secretTTL, cli.argv.args, cli.stdin,
                              ahead, o)} :
        RunReturns(r)
  /\ UNCHANGED <<client, baseURL, retrieved, burned, calls>>

getCmdRunCall(ahead, o) ==
  /\ cli.pc = "run"
  /\ cli.argv.name = "get"
  /\ \E r \in {getCmdRun(store, client, cli.argv.passphrase, cli.argv.args,
                         cli.stdin, ahead, o)} :
        /\ RunReturns(r)
        /\ retrieved' = IF r.call.op = "Get" /\ r.err = Nil
                        THEN retrieved \cup {r.call.key} ELSE retrieved
  /\ UNCHANGED <<client, baseURL, burned, calls>>

metadataCmdRunCall(o) ==
  /\ cli.pc = "run"
  /\ cli.argv.name = "meta"
  /\ \E r \in {metadataCmdRun(store, client, cli.argv.args, cli.stdin, o)} :
        RunReturns(r)
  /\ UNCHANGED <<client, baseURL, retrieved, burned, calls>>

putCmdRunCall(ahead, o) ==
  /\ cli.pc = "run"
  /\ cli.argv.name = "put"
  /\ \E r \in {putCmdRun(store, client, cli.argv.passphrase, cli.argv.secretTTL,
                         cli.argv.args, cli.stdin, ahead, o)} :
        RunReturns(r)
  /\ UNCHANGED <<client, baseURL, retrieved, burned, calls>>

recentCmdRunCall(o) ==
  /\ cli.pc = "run"
  /\ cli.argv.name = "recent"
  /\ \E r \in {recentCmdRun(store, client, cli.argv.args, cli.stdin, o)} :
        RunReturns(r)
  /\ UNCHANGED <<client, baseURL, retrieved, burned, calls>>

statusCmdRunCall(health, o) ==
  /\ cli.pc = "run"
  /\ cli.argv.name = "status"
  /\ \E r \in {statusCmdRun(store, client, cli.argv.args, cli.stdin, health, o)} :
        RunReturns(r)
  /\ UNCHANGED <<client, baseURL, retrieved, burned, calls>>

\* main after cmd.Run: the error is logged and the process exits.
mainExit ==
  /\ cli.pc = "ran"
  /\ cli' = Exited(IF cli.err # Nil THEN 1 ELSE 0, cli.err)
  /\ client' = ZeroClient
  /\ last' = NoCall
  /\ UNCHANGED <<store, baseURL, retrieved, burned, calls>>

\* ---- what the program is run with

\* The credentials given with -username and -key.
FlagUsername == <<"u">>

FlagKey == <<"k">>

\* What standard input holds: two lines.
StdinData == <<"g", "7", "\n", "g", "7">>

\* The network outcomes of the runs of the program.
CliOutcomes ==
  {Answered, Outcome("unreached", 0, ""), Outcome("gateway", 500, MsgOther)}

\* A command line with both credentials given as flags.
Line(name, given, passphrase, args) ==
  Argv(name, "", {"username", "key"} \cup given, FlagUsername, FlagKey,
       passphrase, 0, args)

\* The command lines: for each command every number of positional arguments
\* from none to one too many, and the passphrase not given or "-".
CliArgvs ==
  {Line(n, {}, EmptyStr, a) :
     n \in {"burn", "meta"},
     a \in {<<>>, <<BogusKey, BogusKey>>} \cup {<<k>> : k \in MetadataKeys}}
  \cup {Line("burn", {"passphrase"}, stdinArg, a) :
     a \in {<<>>, <<MetadataKeyOf(1)>>, <<BogusKey, BogusKey>>}}
  \cup {Line("get", {}, EmptyStr, a) :
     a \in {<<>>, <<BogusKey, BogusKey>>} \cup {<<k>> : k \in SecretKeys}}
  \cup {Line("get", {"passphrase"}, stdinArg, a) :
     a \in {<<>>, <<SecretKeyOf(1)>>, <<BogusKey, BogusKey>>}}
  \cup {Line("put", {}, EmptyStr, a) :
     a \in {<<>>, <<SecretA>>, <<stdinArg>>, <<SecretA, SecretA>>}}
  \cup {Line("put", {"passphrase"}, stdinArg, a) :
     a \in {<<>>, <<SecretA>>, <<stdinArg>>, <<SecretA, SecretA>>}}
  \cup {Line(n, {}, EmptyStr, a) :
     n \in {"gen", "recent", "status"}, a \in {<<>>, <<BogusKey>>}}
  \cup {Line("gen", {"passphrase"}, stdinArg, a) : a \in {<<>>, <<BogusKey>>}}
  \cup {Line("meta", {"ttl"}, EmptyStr, <<BogusKey>>),
        Line("bogus", {}, EmptyStr, <<>>),
        Argv("help", "put", {}, EmptyStr, EmptyStr, EmptyStr, 0, <<>>),
        NoArgv}

CliEnvs == {Env(EmptyStr, EmptyStr)}

CliConfigs == {Config(EmptyStr, EmptyStr, FALSE)}

CliStdins ==
  {Stdin(FALSE, StdinData, FALSE), Stdin(TRUE, StdinData, FALSE),
   Stdin(FALSE, EmptyStr, TRUE)}

NextCLI ==
  \/ \E argv \in CliArgvs, env \in CliEnvs, cfg \in CliConfigs,
        stdin \in CliStdins : mainStart(argv, env, cfg, stdin)
  \/ mainResolve
  \/ \E ahead \in BOOLEAN, o \in CliOutcomes : burnCmdRunCall(ahead, o)
  \/ \E ahead \in BOOLEAN, o \in CliOutcomes : generateCmdRunCall(ahead, o)
  \/ \E ahead \in BOOLEAN, o \in CliOutcomes : getCmdRunCall(ahead, o)
  \/ \E o \in CliOutcomes : metadataCmdRunCall(o)
  \/ \E ahead \in BOOLEAN, o \in CliOutcomes : putCmdRunCall(ahead, o)
  \/ \E o \in CliOutcomes : recentCmdRunCall(o)
  \/ \E o \in CliOutcomes : statusCmdRunCall(SystemStatusNominal, o)
  \/ mainExit

\* Invocations of the program, one after the other, with every command line.
SpecCLI == InitCLI /\ [][NextCLI]_vars

\* The credentials each source may give.
EnvUsername == <<"e">>

EnvKey == <<"E">>

ConfigUsername == <<"c">>

ConfigKey == <<"C">>

\* A command line with the right number of positional arguments.
CredLine(name, username, key) ==
  Argv(name, "",
       (IF username = EmptyStr THEN {} ELSE {"username"})
         \cup (IF key = EmptyStr THEN {} ELSE {"key"}),
       username, key, EmptyStr, 0,
       CASE name \in {"burn", "meta"} -> <<MetadataKeyOf(1)>>
         [] name = "get" -> <<SecretKeyOf(1)>>
         [] name = "put" -> <<SecretA>>
         [] OTHER -> <<>>)

CredArgvs ==
  {CredLine(n, u, k) :
     n \in CmdNames, u \in {EmptyStr, FlagUsername}, k \in {EmptyStr, FlagKey}}

CredEnvs == {Env(u, k) : u \in {EmptyStr, EnvUsername}, k \in {EmptyStr, EnvKey}}

CredConfigs ==
  {Config(u, k, FALSE) :
     u \in {EmptyStr, ConfigUsername}, k \in {EmptyStr, ConfigKey}}
    \cup {Config(EmptyStr, EmptyStr, TRUE)}

NextCreds ==
  \/ \E argv \in CredArgvs, env \in CredEnvs, cfg \in CredConfigs :
        mainStart(argv, env, cfg, NoStdin)
  \/ mainResolve
  \/ burnCmdRunCall(FALSE, Answered)
  \/ generateCmdRunCall(FALSE, Answered)
  \/ getCmdRunCall(FALSE, Answered)
  \/ metadataCmdRunCall(Answered)
  \/ putCmdRunCall(FALSE, Answered)
  \/ recentCmdRunCall(Answered)
  \/ statusCmdRunCall(SystemStatusNominal, Answered)
  \/ mainExit

\* Invocations of the program with every combination of the sources of the
\* credentials.
SpecCreds == InitCLI /\ [][NextCreds]_vars


\* ------------------------------------------------------------------ claims

\* The client's methods (each issues a request).
Methods ==
  {"Get", "Put", "Generate", "Burn", "GetMetadata", "GetRecentMetadata",
   "GetSystemStatus"}

\* The service holds, unread, the secret with secret key k.
Unread(k) ==
  /\ IndexOfSecretKey(store, k) # 0
  /\ store[IndexOfSecretKey(store, k)].state = "new"

\* The passphrase and the value the secret with secret key k was stored with.
PassphraseOf(k) == store[IndexOfSecretKey(store, k)].passphrase

ValueOf(k) == store[IndexOfSecretKey(store, k)].value

\* The step is a call of Get: no other operation leaves a result of Get.
GetStep == last'.op = "Get"

\* C1: once a Get of a secret key has succeeded, no later Get with that key
\* succeeds or returns a value, whatever the passphrase and whatever happened
\* in between; when the service's answer arrives, it returns ErrNotFound.
C1_ExactlyOnce ==
  [][(GetStep /\ last'.key \in retrieved) =>
       /\ last'.err # Nil
       /\ last'.value = EmptyStr
       /\ last'.outcome = "answered" => last'.err = ErrNotFound]_vars

\* A second Get, with the right passphrase, of a key already retrieved was
\* answered by the service.
C1_Witness ==
  /\ last.op = "Get"
  /\ last.key \in retrieved
  /\ last.outcome = "answered"
  /\ last.passphrase = PassphraseOf(last.key)
  /\ last.err = ErrNotFound

\* C2: a Get that directly follows a successful Put, with the secret key Put
\* returned and the passphrase Put was given, and whose answer arrives,
\* succeeds and returns the secret Put was given, character for character.
C2_RoundTrip ==
  [][(/\ last.op = "Put"
      /\ last.err = Nil
      /\ last.secret # EmptyStr
      /\ GetStep
      /\ last'.key = last.meta.SecretKey
      /\ last'.passphrase = last.passphrase
      /\ last'.outcome = "answered") =>
       /\ last'.err = Nil
       /\ last'.value = last.secret]_vars

\* A Get returned a secret with a newline, "+", a space and "%", stored with a
\* passphrase.
C2_Witness ==
  /\ last.op = "Get"
  /\ last.err = Nil
  /\ last.value = SecretA
  /\ last.passphrase = PassA
  /\ \E i \in 1..Len(last.value) : last.value[i] = "\n"

\* What the caller of Get sees.
Seen(r) == <<r.value, r.err>>

\* C3: a Get of a stored, unread secret with a passphrase other than the one
\* it was stored with returns ErrNotFound and no value: what a Get of a key
\* the service never issued returns.
C3_PassphraseGating ==
  [][(/\ GetStep
      /\ Unread(last'.key)
      /\ last'.passphrase # PassphraseOf(last'.key)
      /\ last'.outcome = "answered") =>
       /\ last'.err = ErrNotFound
       /\ Seen(last') = Seen(Get(store, client, BogusKey, last'.passphrase, Answered))]_vars

\* A Get with the wrong passphrase of a secret that is still unread was
\* answered with ErrNotFound.
C3_Witness ==
  /\ last.op = "Get"
  /\ last.outcome = "answered"
  /\ Unread(last.key)
  /\ last.passphrase # PassphraseOf(last.key)
  /\ last.err = ErrNotFound

\* C4: a Get with a wrong passphrase of a passphrase-protected unread secret
\* leaves the secret as it was, whatever becomes of the request: after it, a
\* Get with the right passphrase whose answer arrives returns the stored
\* value.
C4_WrongPassphraseKeeps ==
  [][(/\ GetStep
      /\ Unread(last'.key)
      /\ PassphraseOf(last'.key) # EmptyStr
      /\ last'.passphrase # PassphraseOf(last'.key)) =>
       /\ store' = store
       /\ Seen(Get(store', client, last'.key, PassphraseOf(last'.key), Answered))
            = <<ValueOf(last'.key), Nil>>]_vars

\* A Get with a wrong passphrase of a protected secret was answered, and the
\* secret is still there for a Get with the right one.
C4_Witness ==
  /\ last.op = "Get"
  /\ last.outcome = "answered"
  /\ Unread(last.key)
  /\ PassphraseOf(last.key) = PassA
  /\ last.passphrase = EmptyStr
  /\ Seen(Get(store, client, last.key, PassA, Answered)) = <<ValueOf(last.key), Nil>>

\* The step is a call of Put, or of Burn.
PutStep == last'.op = "Put"

BurnStep == last'.op = "Burn"

\* C5: a Put of the empty secret stores nothing, whatever becomes of the
\* request, and returns an error and the zero Metadata; when the service's
\* answer arrives, the error is ErrInvalid.
C5_EmptyRejected ==
  [][(PutStep /\ last'.secret = EmptyStr) =>
       /\ store' = store
       /\ last'.meta = ZeroMetadata
       /\ last'.err # Nil
       /\ last'.outcome = "answered" => last'.err = ErrInvalid]_vars

\* A Put of the empty secret was answered with ErrInvalid.
C5_Witness ==
  /\ last.op = "Put"
  /\ last.secret = EmptyStr
  /\ last.outcome = "answered"
  /\ last.err = ErrInvalid
  /\ last.meta = ZeroMetadata

\* The service holds, unread, the secret with metadata key k.
Unburned(k) ==
  /\ IndexOfMetadataKey(store, k) # 0
  /\ store[IndexOfMetadataKey(store, k)].state = "new"

\* C6: a Burn, whose answer arrives, of an unread secret with its metadata key
\* and its passphrase succeeds and returns Metadata in state burned; a later
\* Burn with a metadata key already burned fails, with ErrNotFound when the
\* service's answer arrives.
C6_BurnOnce ==
  [][BurnStep =>
       /\ (/\ Unburned(last'.key)
           /\ last'.passphrase = store[IndexOfMetadataKey(store, last'.key)].passphrase
           /\ last'.outcome = "answered") =>
            /\ last'.err = Nil
            /\ last'.meta.State = SecretStateBurned
            /\ last'.meta.MetadataKey = last'.key
       /\ last'.key \in burned =>
            /\ last'.err # Nil
            /\ last'.outcome = "answered" => last'.err = ErrNotFound]_vars

\* A second Burn, with the right passphrase, of a metadata key already burned
\* was answered with ErrNotFound.
C6_Witness ==
  /\ last.op = "Burn"
  /\ last.key \in burned
  /\ last.outcome = "answered"
  /\ last.passphrase = store[IndexOfMetadataKey(store, last.key)].passphrase
  /\ last.err = ErrNotFound

\* The secret with metadata key k was retrieved; the one with secret key k
\* was burned.
RetrievedByMetadataKey(k) ==
  \E i \in 1..MaxSecrets : MetadataKeyOf(i) = k /\ SecretKeyOf(i) \in retrieved

BurnedBySecretKey(k) ==
  \E i \in 1..MaxSecrets : SecretKeyOf(i) = k /\ MetadataKeyOf(i) \in burned

\* C7: a Burn of a secret a Get has retrieved fails, and a Get of a secret a
\* Burn has destroyed fails and returns no value, both with ErrNotFound when
\* the service's answer arrives; no secret is both retrieved and burned.
C7_ConsumptionTerminal ==
  [][/\ (BurnStep /\ RetrievedByMetadataKey(last'.key)) =>
          /\ last'.err # Nil
          /\ last'.outcome = "answered" => last'.err = ErrNotFound
     /\ (GetStep /\ BurnedBySecretKey(last'.key)) =>
          /\ last'.err # Nil
          /\ last'.value = EmptyStr
          /\ last'.outcome = "answered" => last'.err = ErrNotFound
     /\ \A i \in 1..MaxSecrets :
          ~(SecretKeyOf(i) \in retrieved' /\ MetadataKeyOf(i) \in burned')]_vars

\* A Burn, with the right passphrase, of a secret already retrieved was
\* answered with ErrNotFound.
C7_Witness ==
  /\ last.op = "Burn"
  /\ RetrievedByMetadataKey(last.key)
  /\ last.outcome = "answered"
  /\ last.passphrase = store[IndexOfMetadataKey(store, last.key)].passphrase
  /\ last.err = ErrNotFound

\* C8: SecretURL returns ErrDestroyed, and no URL, exactly when the Metadata's
\* secret key is empty; otherwise it returns no error and the URL of the
\* secret key under the base URL.
C8_SecretURL ==
  last.op = "SecretURL" =>
    /\ (last.meta.SecretKey = EmptyStr) <=> (last.err = ErrDestroyed)
    /\ last.err = ErrDestroyed => last.url = <<>>
    /\ last.meta.SecretKey # EmptyStr =>
         /\ last.err = Nil
         /\ Len(last.url) = 1
         /\ last.url[1].Host = baseURL.Host
         /\ last.url[1].Path = baseURL.Path \o SecretPrefix \o last.meta.SecretKey

\* SecretURL was asked of the Metadata of a retrieved or burned secret, whose
\* secret key the service had cleared.
C8_Witness ==
  /\ last.op = "SecretURL"
  /\ last.meta.MetadataKey # EmptyStr
  /\ last.meta.State \in {SecretStateReceived, SecretStateBurned}
  /\ last.meta.SecretKey = EmptyStr
  /\ last.err = ErrDestroyed

\* C9: when a method receives a non-2xx response with an error envelope, the
\* message "You did not provide anything to share" gives ErrInvalid, "Unknown
\* secret" gives ErrNotFound, and any other message an error that is none of
\* ErrInvalid, ErrNotFound, ErrDestroyed and carries the message; a 2xx
\* response gives none of these errors.
C9_ErrorClassification ==
  (last.op \in Methods /\ last.outcome \in {"answered", "gateway", "garbled"}) =>
    IF last.status >= 200 /\ last.status < 300
    THEN last.err \in {Nil, ErrJSON}
    ELSE last.body.shape = "error" =>
           /\ last.body.message = MsgInvalid => last.err = ErrInvalid
           /\ last.body.message = MsgUnknown => last.err = ErrNotFound
           /\ last.body.message \notin {MsgInvalid, MsgUnknown} =>
                /\ last.err \notin {ErrInvalid, ErrNotFound, ErrDestroyed, Nil}
                /\ last.err = "error: " \o last.body.message

\* A method received a 500 response with a message that is neither of the two.
C9_Witness ==
  /\ last.op \in Methods
  /\ last.status = 500
  /\ last.body = ErrorBody(MsgOther)
  /\ last.err = "error: Not authorized"

\* C10: every call of a client method hands exactly one request to the
\* transport, whether it succeeds, meets a transport error, a non-2xx status
\* or a body that does not decode; the URL methods hand none.
C10_OneRequest ==
  /\ last.op \in Methods => Len(last.sent) = 1
  /\ last.op \notin Methods => Len(last.sent) = 0

\* A call that met a transport error after the service had handled its
\* request sent one request.
C10_Witness ==
  /\ last.op \in Methods
  /\ last.outcome = "lost"
  /\ last.err = ErrTransport
  /\ Len(last.sent) = 1

\* The first value of values that is not empty (the empty string: none).
FirstNonEmpty(values) ==
  IF \E i \in 1..Len(values) : values[i] # EmptyStr
  THEN values[CHOOSE i \in 1..Len(values) :
                /\ values[i] # EmptyStr
                /\ \A j \in 1..(i - 1) : values[j] = EmptyStr]
  ELSE EmptyStr

\* The sources of the username and of the key of the process, in the order of
\* their priority: flag, environment variable, config file.
UsernameSources == <<cli.argv.username, cli.env.OTS_USERNAME, cli.cfg.Username>>

KeySources == <<cli.argv.key, cli.env.OTS_KEY, cli.cfg.Key>>

\* C11: when main calls the command's Run, the client's username is the first
\* non-empty one of the -username flag, OTS_USERNAME and the config file's
\* username, and its key the first non-empty one of the -key flag, OTS_KEY and
\* the config file's key: each is decided by its own three sources alone.
C11_CredentialPrecedence ==
  cli.pc \in {"run", "ran"} =>
    /\ client.Username = FirstNonEmpty(UsernameSources)
    /\ client.Key = FirstNonEmpty(KeySources)

\* A command runs with the username of the environment, although the config
\* file has one too, and with the key of the config file.
C11_Witness ==
  /\ cli.pc = "run"
  /\ UsernameSources = <<EmptyStr, EnvUsername, ConfigUsername>>
  /\ KeySources = <<EmptyStr, EmptyStr, ConfigKey>>
  /\ client = [Username |-> EnvUsername, Key |-> ConfigKey]

\* C12: when no source gives a username, or none gives a key, main logs the
\* missing credential and exits with code 1 from the resolution itself, with
\* no call of the client made and the service untouched; a command's Run is
\* only ever reached with a username and a key, and every request sent
\* carries both.
C12_MissingCredentialsFatal ==
  /\ [](cli.pc \in {"run", "ran"} =>
          client.Username # EmptyStr /\ client.Key # EmptyStr)
  /\ [](\A i \in 1..Len(last.sent) :
          last.sent[i].user # EmptyStr /\ last.sent[i].key # EmptyStr)
  /\ [][(/\ cli.pc = "resolve"
          /\ \/ FirstNonEmpty(UsernameSources) = EmptyStr
             \/ FirstNonEmpty(KeySources) = EmptyStr) =>
           /\ cli'.pc = "exited"
           /\ cli'.exit = 1
           /\ cli'.log \in {LogMissingUsername, LogMissingKey}
           /\ last' = NoCall
           /\ store' = store]_vars

\* The program has exited with code 1 for a missing key (the username was
\* found), with no call made.
C12_Witness ==
  /\ cli.pc = "exited"
  /\ cli.exit = 1
  /\ cli.log = LogMissingKey
  /\ last = NoCall

\* C13: when ots put is given "-" as its positional secret argument, the
\* secret it hands to Put is what it read from standard input and not the
\* string "-".
C13_StdinSentinel ==
  (/\ cli.pc = "ran"
   /\ cli.argv.name = "put"
   /\ cli.argv.args = <<stdinArg>>
   /\ last.op = "Put") =>
    /\ last.secret # stdinArg
    /\ \E i \in 1..Len(cli.reads) : cli.reads[i] = "secret"

\* The number of positional arguments is not one the command takes.
WrongArgs(argv) ==
  CASE argv.name \in {"burn", "get", "meta"}     -> Len(argv.args) # 1
    [] argv.name \in {"gen", "recent", "status"} -> Len(argv.args) # 0
    [] argv.name = "put"                         -> Len(argv.args) > 1
    [] OTHER                                     -> FALSE

\* C17: a command's Run that is called with a wrong number of positional
\* arguments returns a usage error with nothing read from standard input, no
\* call of the client made and the service's secrets as they were.
C17_UsageErrorsFirst ==
  [][(cli.pc = "run" /\ WrongArgs(cli.argv) /\ cli'.pc # "run") =>
       /\ cli'.pc = "ran"
       /\ cli'.usage
       /\ cli'.err \notin {Nil, ErrNotFound, ErrInvalid}
       /\ cli'.reads = <<>>
       /\ cli'.stdin = cli.stdin
       /\ last' = NoCall
       /\ store' = store]_vars

\* ots get -passphrase - with two positional arguments returned a usage
\* error while the service held an unread secret: nothing was read and no
\* call was made.
C17_Witness ==
  /\ cli.pc = "ran"
  /\ cli.usage
  /\ cli.argv.name = "get"
  /\ cli.argv.passphrase = stdinArg
  /\ Len(cli.argv.args) = 2
  /\ cli.reads = <<>>
  /\ cli.stdin.data = StdinData
  /\ last = NoCall
  /\ \E i \in 1..Len(store) : store[i].state = "new"

BuiltAlone(inv) ==
  [req |-> NewRequest(NewClient, inv.method, inv.path, inv.query),
   u   |-> [PackageBaseURL EXCEPT !.Path = @ \o ApiPrefix \o PathChars(inv.path)]]

\* C15: no operation mutates client-side state: in every interleaving of
\* concurrent method calls and of SecretURL / MetadataURL, the Client's
\* Username and Key and the package's base URL keep the values they had
\* after construction, and the request and URL of every call in flight, and
\* every URL returned, are those its own arguments give.
C15_NoClientStateMutated ==
  /\ client = NewClient
  /\ baseURL = PackageBaseURL
  /\ \A g \in Callers :
        calls[g].pc # "idle" =>
          /\ calls[g].req[1] = BuiltAlone(calls[g].inv[1]).req
          /\ calls[g].u[1] = BuiltAlone(calls[g].inv[1]).u
  /\ last.op = "SecretURL" /\ last.err = Nil =>
        last.url[1] = [PackageBaseURL EXCEPT
                         !.Path = @ \o SecretPrefix \o PathEscape(last.meta.SecretKey)]
  /\ last.op = "MetadataURL" =>
        last.url[1] = [PackageBaseURL EXCEPT
                         !.Path = @ \o PrivatePrefix \o PathEscape(last.meta.MetadataKey)]

\* Two calls are in flight at once: a Get has built its request while a
\* Burn, begun earlier, already has its response, and a URL was returned
\* before.
C15_Witness ==
  /\ calls[1].pc = "built"
  /\ calls[1].inv[1].op = "Get"
  /\ calls[2].pc = "received"
  /\ calls[2].inv[1].op = "Burn"
  /\ Len(store) > 0
  /\ last.op = "SecretURL"
  /\ last.err = Nil

\* The states of SecretState the client knows by name.
KnownStates ==
  {SecretStateNew, SecretStateViewed, SecretStateReceived, SecretStateBurned}

\* What the claim says the state string s of the service maps to.
MappedState(s) == IF s \in KnownStates THEN s ELSE SecretStateOther

\* The key responses of the body the most recent call received, in order.
ReceivedKeyResponses ==
  CASE last.body.shape = "key"  -> <<last.body.kr>>
    [] last.body.shape = "burn" -> <<last.body.state>>
    [] last.body.shape = "list" -> last.body.krs
    [] OTHER -> <<>>

\* The metadata the most recent call returned, in order.
ReturnedMetadata ==
  IF last.op = "GetRecentMetadata" THEN last.list
  ELSE IF last.op \in {"Put", "Generate", "Burn", "GetMetadata"} /\ last.err = Nil
  THEN <<last.meta>>
  ELSE <<>>

\* C16: forward-compatible state mapping: the State of every Metadata and
\* PartialMetadata a method returns as its result is one of new, viewed,
\* received, burned or other; a state string of the service that is one of
\* the four known names maps to that state and every other string, the
\* empty one included, maps to other, and no state string makes the call
\* fail.
C16_ForwardCompatibleStates ==
  /\ \A i \in 1..Len(ReturnedMetadata) :
        /\ ReturnedMetadata[i].State \in KnownStates \cup {SecretStateOther}
        /\ ReturnedMetadata[i].State = MappedState(ReceivedKeyResponses[i].state)
  /\ last.status = 200 => last.err = Nil
  /\ last.err = Nil => Len(ReturnedMetadata) = Len(ReceivedKeyResponses)

\* A list was returned for a service that sent a state the client does
\* not know and the empty string: both entries have the state other.
C16_Witness ==
  /\ last.op = "GetRecentMetadata"
  /\ last.err = Nil
  /\ last.body.krs[1].state = "expired"
  /\ last.body.krs[2].state = ""
  /\ last.list[1].State = SecretStateOther
  /\ last.list[2].State = SecretStateOther

====
